---------------------------- MODULE Spec2Model ----------------------------
(***************************************************************************)
(* A model of lark/lark.py: the option object (LarkOptions), the           *)
(* construction of a Lark instance (Lark.__init__, _build_lexer,           *)
(* _build_parser) and the two calls on a constructed instance (lex and     *)
(* parse), the latter run step by step by several threads that share the   *)
(* instance.                                                               *)
(*                                                                         *)
(* lark.py's collaborators (load_grammar, Lexer, ENGINE_DICT and its       *)
(* engines, ParseTreeBuilder) live in other files of the package; they are *)
(* modelled from the specification's description of them, on a grammar     *)
(* language small enough to enumerate: patterns are literals, and a rule's *)
(* body is a sequence of terminal names.                                   *)
(*                                                                         *)
(* Python values are strings here ("True", "None", a class or object       *)
(* name); text and patterns are sequences of one-character strings.        *)
(* assert statements are taken to execute (the interpreter's default).     *)
(***************************************************************************)
EXTENDS Integers, Sequences, FiniteSets, TLC

VARIABLES
    phase,      \* "new": Lark(...) not called yet; "built"; "failed"
    args,       \* the arguments of the one Lark(grammar, **options) call
    self,       \* the Lark instance: its attributes
    raised,     \* the exception the constructor raised
    invoked,    \* the collaborators the constructor invoked, in order
    pc,         \* per thread: "idle", "drain", "engine", "done"
    call,       \* per thread: the call in progress, [kind, text]
    stream,     \* per thread: the cursor of the token stream its call made
    l,          \* the token lists being drained into (parse's local l)
    engineIn,   \* per thread: the token list handed to the engine's parse
    result      \* per thread: what the call returned or raised

vars == <<phase, args, self, raised, invoked, pc, call, stream, l, engineIn, result>>

(***************************************************************************)
(*                               Bounds                                    *)
(***************************************************************************)
\* Longest input text a lex or parse call is given.
MaxTextLen == 2
\* Longest token-specification list of an enumerated grammar.
MaxTokens == 2

Threads == {"t1", "t2"}
Chars == {"a", " "}

RECURSIVE SeqsUpTo(_, _)
SeqsUpTo(S, n) ==
    IF n = 0 THEN {<<>>}
    ELSE LET shorter == SeqsUpTo(S, n - 1)
         IN  shorter \cup {Append(s, x) : s \in {t \in shorter : Len(t) = n - 1}, x \in S}

Texts == SeqsUpTo(Chars, MaxTextLen)

(***************************************************************************)
(*                      Python values and exceptions                       *)
(***************************************************************************)
\* bool(v): the values the model uses that Python takes for false.
Truthy(v) == v \notin {"False", "None", "0", ""}

NoExc == [exc |-> "none", at |-> "none", pos |-> 0]
Exc(type, where) == [exc |-> type, at |-> where, pos |-> 0]
ExcAt(type, where, p) == [exc |-> type, at |-> where, pos |-> p]

(***************************************************************************)
(*                              LarkOptions                                *)
(***************************************************************************)
KnownKeys == {"debug", "only_lex", "keep_all_tokens", "tree_class", "cache_grammar",
              "postlex", "parser", "transformer", "start"}

\* The keys of the engine table parser_frontends.ENGINE_DICT.
ENGINE_DICT == {"lalr", "earley"}

\* o.pop(k, default), the value half.
Pop(o, k, default) == IF k \in DOMAIN o THEN o[k] ELSE default

\* What is left of o once every known key was popped off it.
Leftover(o) == DOMAIN o \ KnownKeys

\* OptionFields with the LALR engine for default.
OptionFieldsDefaultLalr(o) ==
    [debug           |-> Truthy(Pop(o, "debug", "False")),
     only_lex        |-> Truthy(Pop(o, "only_lex", "False")),
     keep_all_tokens |-> Truthy(Pop(o, "keep_all_tokens", "False")),
     tree_class      |-> Pop(o, "tree_class", "Tree"),
     cache_grammar   |-> Pop(o, "cache_grammar", "False"),
     postlex         |-> Pop(o, "postlex", "None"),
     parser          |-> Pop(o, "parser", "lalr"),
     transformer     |-> Pop(o, "transformer", "None"),
     start           |-> Pop(o, "start", "start")]

\* The attributes set by lines 32-40.
OptionFields(o) ==
    [debug           |-> Truthy(Pop(o, "debug", "False")),
     only_lex        |-> Truthy(Pop(o, "only_lex", "False")),
     keep_all_tokens |-> Truthy(Pop(o, "keep_all_tokens", "False")),
     tree_class      |-> Pop(o, "tree_class", "Tree"),
     cache_grammar   |-> Pop(o, "cache_grammar", "False"),
     postlex         |-> Pop(o, "postlex", "None"),
     parser          |-> Pop(o, "parser", "earley"),
     transformer     |-> Pop(o, "transformer", "None"),
     start           |-> Pop(o, "start", "start")]

\* OptionsError without the check of keep_all_tokens (lines 45-46).
OptionsErrorKeepAllowed(f, rest) ==
    IF f.parser \notin ENGINE_DICT
      THEN Exc("AssertionError", "LarkOptions.__init__")
    ELSE IF f.parser = "earley" /\ Truthy(f.transformer)
      THEN Exc("ValueError", "LarkOptions.__init__")
    ELSE IF rest # {}
      THEN Exc("ValueError", "LarkOptions.__init__")
    ELSE NoExc

\* The checks of lines 42-49, in their order: the first that fails raises.
OptionsError(f, rest) ==
    IF f.parser \notin ENGINE_DICT
      THEN Exc("AssertionError", "LarkOptions.__init__")
    ELSE IF f.parser = "earley" /\ Truthy(f.transformer)
      THEN Exc("ValueError", "LarkOptions.__init__")
    ELSE IF f.keep_all_tokens
      THEN Exc("NotImplementedError", "LarkOptions.__init__")
    ELSE IF rest # {}
      THEN Exc("ValueError", "LarkOptions.__init__")
    ELSE NoExc

\* LarkOptions(options_dict): the option object, or the exception raised.
LarkOptionsInit(options_dict) ==
    LET f == OptionFields(options_dict)
    IN  [raised |-> OptionsError(f, Leftover(options_dict)), options |-> f]


(***************************************************************************)
(*        Collaborators of lark.py, modelled from the specification        *)
(***************************************************************************)
\* load_grammar(grammar): the grammar compiler, a black box that yields the
\* token specifications and the rules of a grammar text or rejects the text.
\* A grammar text is written here as what it declares.
load_grammar(text) ==
    IF text.valid
      THEN [raised |-> NoExc, tokens |-> text.tokens, rules |-> text.rules]
      ELSE [raised |-> Exc("GrammarError", "load_grammar"), tokens |-> <<>>, rules |-> <<>>]

\* Lexer(tokens, callbacks, ignore=...): the compiled lexer keeps what it is given.
Lexer(tokens, callbacks, ignore) ==
    [tokens |-> tokens, callbacks |-> callbacks, ignore |-> ignore]

\* ParseTreeBuilder(tree_class)
ParseTreeBuilder(tree_class) == [tree_class |-> tree_class]

\* ParseTreeBuilder.create_tree_builder(rules, transformer): the rules and the
\* callback the engine runs on every reduction.
create_tree_builder(builder, rules, transformer) ==
    [rules |-> rules,
     callback |-> [tree_class |-> builder.tree_class, transformer |-> transformer]]

\* Two rules with the same head and body: a reduce/reduce conflict.
HasConflict(rules) ==
    \E i, j \in 1..Len(rules) : i < j /\ rules[i] = rules[j]

\* engine.build_parser(rules, callback, start): the compiled parser. The LALR
\* engine rejects a grammar with a conflict; both reject an undefined start.
build_parser(engine, rules, callback, start) ==
    LET p == [engine |-> engine, rules |-> rules, callback |-> callback, start |-> start]
    IN  IF \A i \in 1..Len(rules) : rules[i][1] # start
          THEN [raised |-> Exc("GrammarError", "build_parser"), parser |-> p]
        ELSE IF engine = "lalr" /\ HasConflict(rules)
          THEN [raised |-> Exc("GrammarConflict", "build_parser"), parser |-> p]
        ELSE [raised |-> NoExc, parser |-> p]

(***************************************************************************)
(*                           Lark construction                             *)
(***************************************************************************)
NoLexer == Lexer(<<>>, {}, <<>>)
NoParser == [engine |-> "none", rules |-> <<>>,
             callback |-> [tree_class |-> "none", transformer |-> "None"],
             start |-> "none"]

\* An instance none of whose attributes is assigned yet; attrs names the
\* attributes that are.
NoSelf ==
    [attrs |-> {}, options |-> OptionFields(<<>>), tokens |-> <<>>, rules |-> <<>>,
     lexer |-> NoLexer, parser_engine |-> "none",
     parse_tree_builder |-> ParseTreeBuilder("none"), parser |-> NoParser]

\* Lark._build_lexer, the loop of lines 95-98 from specification i on.
RECURSIVE BuildLexerLoop(_, _, _, _)
BuildLexerLoop(toks, i, ignore_tokens, tokens) ==
    IF i > Len(toks)
      THEN Lexer(tokens, {}, ignore_tokens)
      ELSE LET name == toks[i][1]
               value == toks[i][2]
               flags == toks[i][3]
           IN  BuildLexerLoop(toks, i + 1,
                              IF "ignore" \in flags
                                THEN Append(ignore_tokens, name)
                                ELSE ignore_tokens,
                              Append(tokens, <<name, value>>))

\* The loop with an ignored specification left out of the lexer's token list.
RECURSIVE SkipIgnoredLoop(_, _, _, _)
SkipIgnoredLoop(toks, i, ignore_tokens, tokens) ==
    IF i > Len(toks)
      THEN Lexer(tokens, {}, ignore_tokens)
      ELSE IF "ignore" \in toks[i][3]
        THEN SkipIgnoredLoop(toks, i + 1, Append(ignore_tokens, toks[i][1]), tokens)
        ELSE SkipIgnoredLoop(toks, i + 1, ignore_tokens, Append(tokens, <<toks[i][1], toks[i][2]>>))

\* _build_lexer over that loop.
BuildLexerSkipIgnored(s) == SkipIgnoredLoop(s.tokens, 1, <<>>, <<>>)

\* Lark._build_lexer
_build_lexer(s) == BuildLexerLoop(s.tokens, 1, <<>>, <<>>)

\* Lark._build_parser: the parser, or the exception build_parser raised.
_build_parser(s) ==
    LET tb == create_tree_builder(s.parse_tree_builder, s.rules, s.options.transformer)
    IN  build_parser(s.parser_engine, tb.rules, tb.callback, s.options.start)

\* The outcome of a constructor that raised e after invoking log.
CtorFailed(e, log) == [raised |-> e, self |-> NoSelf, invoked |-> log]

\* Lines 86-90: the lexer, and unless only_lex the engine and its parser.
BuildStage(s, log) ==
    LET s1 == [s EXCEPT !.lexer = _build_lexer(s), !.attrs = @ \cup {"lexer"}]
        log1 == Append(log, "Lexer")
    IN  IF s1.options.only_lex
          THEN [raised |-> NoExc, self |-> s1, invoked |-> log1]
          ELSE LET s2 == [s1 EXCEPT !.parser_engine = s1.options.parser,
                                    !.parse_tree_builder = ParseTreeBuilder(s1.options.tree_class),
                                    !.attrs = @ \cup {"parser_engine", "parse_tree_builder"}]
                   log2 == log1 \o <<"Engine", "ParseTreeBuilder", "create_tree_builder",
                                     "build_parser">>
                   b == _build_parser(s2)
               IN  IF b.raised # NoExc
                     THEN CtorFailed(b.raised, log2)
                     ELSE [raised |-> NoExc,
                           self |-> [s2 EXCEPT !.parser = b.parser, !.attrs = @ \cup {"parser"}],
                           invoked |-> log2]

\* Lines 63-69: the locals source and cache_file are never read, but computing
\* them can raise. Without a name attribute the grammar object is hashed
\* (line 67), a TypeError when it is unhashable; with one, os.path.basename is
\* applied to the name (line 69), a TypeError when the name is no path (a
\* file opened from a descriptor has an int for name).
SourceError(grammar) ==
    IF grammar.name = "absent"
      THEN IF grammar.hashable THEN NoExc ELSE Exc("TypeError", "Lark.__init__")
      ELSE IF grammar.name = "path" THEN NoExc ELSE Exc("TypeError", "basename")

\* Lines 72-79: whether what is left in grammar after the draining of a
\* file-like object is a string (read() may return bytes).
IsString(grammar) ==
    IF grammar.read = "absent" THEN grammar.isstr ELSE grammar.read = "str"

\* Lines 62-84: the cache file name is computed; the grammar argument is
\* drained when it has a read attribute and must then be a string;
\* cache_grammar is refused; the grammar is loaded.
LoadStage(s, grammar) ==
    LET log == IF grammar.read # "absent" THEN <<"LarkOptions", "read">> ELSE <<"LarkOptions">>
    IN  IF SourceError(grammar) # NoExc
          THEN CtorFailed(SourceError(grammar), <<"LarkOptions">>)
        ELSE IF ~IsString(grammar)
          THEN CtorFailed(Exc("AssertionError", "Lark.__init__"), log)
        ELSE IF Truthy(s.options.cache_grammar)
          THEN CtorFailed(Exc("NotImplementedError", "Lark.__init__"), log)
        ELSE LET g == load_grammar(grammar.text)
                 log1 == Append(log, "load_grammar")
             IN  IF g.raised # NoExc
                   THEN CtorFailed(g.raised, log1)
                   ELSE BuildStage([s EXCEPT !.tokens = g.tokens, !.rules = g.rules,
                                             !.attrs = @ \cup {"tokens", "rules"}], log1)

\* Lark.__init__ with the options checked after the grammar is compiled.
LarkInitValidateLast(grammar, options) ==
    LET o == LarkOptionsInit(options)
        c == LoadStage([NoSelf EXCEPT !.options = o.options, !.attrs = {"options"}], grammar)
    IN  IF c.raised = NoExc /\ o.raised # NoExc THEN CtorFailed(o.raised, c.invoked) ELSE c

\* Lark.__init__(grammar, **options): the instance, or the exception raised,
\* with the collaborators invoked on the way.
LarkInit(grammar, options) ==
    LET o == LarkOptionsInit(options)
    IN  IF o.raised # NoExc
          THEN CtorFailed(o.raised, <<"LarkOptions">>)
          ELSE LoadStage([NoSelf EXCEPT !.options = o.options, !.attrs = {"options"}], grammar)

(***************************************************************************)
(*      The lexer's and the engines' run time, from the specification      *)
(***************************************************************************)
NoToken == [type |-> "none", value |-> <<>>, start_offset |-> 0]

\* Whether name occurs in the sequence names.
InSeq(name, names) == \E i \in 1..Len(names) : names[i] = name

\* A literal pattern matches text at position pos (from 1).
MatchesAt(pat, text, pos) ==
    /\ Len(pat) > 0
    /\ pos + Len(pat) - 1 <= Len(text)
    /\ \A k \in 1..Len(pat) : text[pos + k - 1] = pat[k]

\* The patterns of the lexer that match at pos.
Candidates(lexer, text, pos) ==
    {i \in 1..Len(lexer.tokens) : MatchesAt(lexer.tokens[i][2], text, pos)}

\* The longest match; on a tie the pattern declared first.
BestMatch(lexer, text, pos) ==
    LET c == Candidates(lexer, text, pos)
        len(i) == Len(lexer.tokens[i][2])
    IN  CHOOSE i \in c : \A j \in c : len(i) > len(j) \/ (len(i) = len(j) /\ i <= j)

\* One next() on the generator Lexer.lex(text) whose cursor is at pos: the
\* next token that is not ignored, the end of the text, or UnexpectedCharacter.
RECURSIVE LexerNext(_, _, _)
LexerNext(lexer, text, pos) ==
    IF pos > Len(text)
      THEN [kind |-> "stop", tok |-> NoToken, raised |-> NoExc, pos |-> pos]
    ELSE IF Candidates(lexer, text, pos) = {}
      THEN [kind |-> "raise", tok |-> NoToken,
            raised |-> ExcAt("UnexpectedCharacter", "Lexer.lex", pos - 1), pos |-> pos]
    ELSE LET i == BestMatch(lexer, text, pos)
             name == lexer.tokens[i][1]
             pat == lexer.tokens[i][2]
         IN  IF InSeq(name, lexer.ignore)
               THEN LexerNext(lexer, text, pos + Len(pat))
               ELSE [kind |-> "token",
                     tok |-> [type |-> name, value |-> pat, start_offset |-> pos - 1],
                     raised |-> NoExc, pos |-> pos + Len(pat)]

\* The token a post-lexer appends once the lexer's stream ends.
EndToken(text) == [type |-> "_END", value |-> <<>>, start_offset |-> Len(text)]

\* One next() on a token stream: the lexer's generator, wrapped when wrap is a
\* post-lexer by its process(stream), a generator that passes every token on
\* and ends the stream with one token of its own.
StreamNext(lexer, text, st) ==
    LET n == LexerNext(lexer, text, st.pos)
        stop == [kind |-> "stop", tok |-> NoToken, raised |-> NoExc,
                 st |-> [st EXCEPT !.closed = TRUE]]
    IN  IF st.closed THEN stop
        ELSE IF n.kind = "stop"
          THEN IF st.wrap = "None" THEN stop
               ELSE [kind |-> "token", tok |-> EndToken(text), raised |-> NoExc,
                     st |-> [st EXCEPT !.closed = TRUE]]
        ELSE [kind |-> n.kind, tok |-> n.tok, raised |-> n.raised,
              st |-> [st EXCEPT !.pos = n.pos]]

\* list(stream): the tokens of a stream from cursor st on, or the exception
\* that draining it raises.
RECURSIVE DrainAll(_, _, _, _)
DrainAll(lexer, text, st, acc) ==
    LET n == StreamNext(lexer, text, st)
    IN  IF n.kind = "stop" THEN [raised |-> NoExc, tokens |-> acc]
        ELSE IF n.kind = "raise" THEN [raised |-> n.raised, tokens |-> <<>>]
        ELSE DrainAll(lexer, text, n.st, Append(acc, n.tok))

NoTree == [cls |-> "none", label |-> "none", children |-> <<>>]

\* The tree builder's callback on one reduction: a node of the tree class
\* labelled with the rule's head, handed to the transformer when there is one.
Callback(cb, rule, toks) ==
    LET node == [cls |-> cb.tree_class, label |-> rule[1],
                 children |-> [i \in 1..Len(toks) |-> toks[i].value]]
    IN  IF Truthy(cb.transformer) THEN [node EXCEPT !.cls = cb.transformer] ELSE node

IsPrefix(a, b) == Len(a) <= Len(b) /\ \A i \in 1..Len(a) : a[i] = b[i]

\* parser.parse(tokens) of a compiled parser: the value built for the first
\* declared rule of the start symbol that the token types spell, else
\* UnexpectedEOF when they are the beginning of one, else UnexpectedToken at
\* the first token no rule allows.
EngineParse(p, toks) ==
    LET types == [i \in 1..Len(toks) |-> toks[i].type]
        starts == {i \in 1..Len(p.rules) : p.rules[i][1] = p.start}
        whole == {i \in starts : p.rules[i][2] = types}
        fits(k) == \E i \in starts : IsPrefix(SubSeq(types, 1, k), p.rules[i][2])
    IN  IF whole # {}
          THEN LET r == CHOOSE i \in whole : \A j \in whole : i <= j
               IN  [raised |-> NoExc, value |-> Callback(p.callback, p.rules[r], toks)]
        ELSE IF fits(Len(types))
          THEN [raised |-> ExcAt("UnexpectedEOF", "parser.parse", Len(types)), value |-> NoTree]
        ELSE LET k == CHOOSE k \in 1..Len(types) : ~fits(k) /\ \A j \in 1..(k - 1) : fits(j)
             IN  [raised |-> ExcAt("UnexpectedToken", "parser.parse", k), value |-> NoTree]

(***************************************************************************)
(*                     Calls on a constructed instance                     *)
(***************************************************************************)
NoCall == [kind |-> "none", text |-> <<>>]
NoStream == [wrap |-> "None", pos |-> 0, closed |-> FALSE]
NoEngineIn == [set |-> FALSE, tokens |-> <<>>]
NoResult == [status |-> "none", raised |-> NoExc, tokens |-> <<>>, value |-> NoTree]

Returned(tokens, value) ==
    [status |-> "returned", raised |-> NoExc, tokens |-> tokens, value |-> value]
Raised(e) == [status |-> "raised", raised |-> e, tokens |-> <<>>, value |-> NoTree]

\* Lark.lex that returns the lexer's stream as it is, post-lexer or not.
LarkLexRaw(s, text) == [wrap |-> "None", pos |-> 1, closed |-> FALSE]

\* Lark.lex(text): a fresh stream over the lexer, through postlex.process when
\* the options hold a post-lexer.
LarkLex(s, text) ==
    [wrap |-> IF Truthy(s.options.postlex) THEN s.options.postlex ELSE "None",
     pos |-> 1, closed |-> FALSE]

\* One token list for every call: l kept on the instance.
LocalListShared(t) == "t1"

\* Where a parse call keeps its token list: l is a local of the call's frame.
LocalList(t) == t

\* Lark.parse(text) run alone, start to end.
ParseAlone(s, text) ==
    IF s.options.only_lex
      THEN Raised(Exc("AssertionError", "Lark.parse"))
      ELSE LET d == DrainAll(s.lexer, text, LarkLex(s, text), <<>>)
               r == EngineParse(s.parser, d.tokens)
           IN  IF d.raised # NoExc THEN Raised(d.raised)
               ELSE IF r.raised # NoExc THEN Raised(r.raised)
               ELSE Returned(<<>>, r.value)

(***************************************************************************)
(*                         Constructor arguments                           *)
(***************************************************************************)
\* A keyword dictionary: the keys of r whose value is not "absent".
MkDict(r) == [k \in {x \in DOMAIN r : r[x] # "absent"} |-> r[k]]

\* Every **options of the enumeration: each known key absent or given, and
\* one key ("lexer") that LarkOptions does not know.
OptionDicts ==
    {MkDict([debug |-> d, only_lex |-> ol, keep_all_tokens |-> kat, tree_class |-> tc,
             cache_grammar |-> cg, postlex |-> pl, parser |-> pa, transformer |-> tr,
             start |-> st, lexer |-> lx]) :
        d \in {"absent", "True"}, ol \in {"absent", "False", "True"},
        kat \in {"absent", "False", "True"}, tc \in {"absent", "MyTree"},
        cg \in {"absent", "True"}, pl \in {"absent", "EndMarker"},
        pa \in {"absent", "earley", "lalr", "glr"}, tr \in {"absent", "None", "T"},
        st \in {"absent", "expr"}, lx \in {"absent", "standard"}}

\* The options the instances that serve calls are built from.
CallOptionDicts ==
    {MkDict([only_lex |-> ol, postlex |-> pl, parser |-> pt[1], transformer |-> pt[2],
             start |-> st]) :
        ol \in {"absent", "False", "True"}, pl \in {"absent", "EndMarker"},
        pt \in {<<"absent", "absent">>, <<"lalr", "absent">>, <<"lalr", "T">>},
        st \in {"absent", "expr"}}

\* start: A A | A _END ; expr: A ; A: "a" ; WS: " " (ignored)
GrammarWs ==
    [valid |-> TRUE,
     tokens |-> << <<"A", <<"a">>, {}>>, <<"WS", <<" ">>, {"ignore"}>> >>,
     rules |-> << <<"start", <<"A", "A">>>>, <<"start", <<"A", "_END">>>>, <<"expr", <<"A">>>> >>]

\* start: A | A | AA | A _END ; AA: "aa" ; A: "a" (the rule A twice: a conflict)
GrammarAmb ==
    [valid |-> TRUE,
     tokens |-> << <<"AA", <<"a", "a">>, {"str"}>>, <<"A", <<"a">>, {"str"}>> >>,
     rules |-> << <<"start", <<"A">>>>, <<"start", <<"A">>>>, <<"start", <<"AA">>>>,
                  <<"start", <<"A", "_END">>>> >>]

\* A text that is no grammar.
GrammarBad == [valid |-> FALSE, tokens |-> <<>>, rules |-> <<>>]

\* The grammar argument, by what Lark.__init__ asks of it: its name attribute
\* ("absent", a "path", an "int"), whether it can be hashed, what its read()
\* returns ("absent": no read attribute; "str"; "bytes"), whether it is itself
\* a string, and the grammar text it holds.
GrammarArg(name, hashable, read, isstr, text) ==
    [name |-> name, hashable |-> hashable, read |-> read, isstr |-> isstr, text |-> text]

\* A string.
StrGrammar(text) == GrammarArg("absent", TRUE, "absent", TRUE, text)
\* A text file opened by its path.
FileGrammar(text) == GrammarArg("path", TRUE, "str", FALSE, text)
\* A text file opened from a descriptor: its name is the descriptor.
FdFileGrammar(text) == GrammarArg("int", TRUE, "str", FALSE, text)
\* A file opened in binary mode: read() returns bytes.
BinaryFileGrammar(text) == GrammarArg("path", TRUE, "bytes", FALSE, text)
\* An in-memory text stream: read() and no name.
StringIOGrammar(text) == GrammarArg("absent", TRUE, "str", FALSE, text)
\* A list: neither string nor file-like, and unhashable.
ListGrammar == GrammarArg("absent", FALSE, "absent", FALSE, GrammarBad)
\* None or a number: neither string nor file-like.
OtherGrammar == GrammarArg("absent", TRUE, "absent", FALSE, GrammarBad)

NoGrammar == OtherGrammar

GrammarArgs ==
    {StrGrammar(GrammarWs), FileGrammar(GrammarAmb), StrGrammar(GrammarBad),
     FdFileGrammar(GrammarAmb), BinaryFileGrammar(GrammarAmb), StringIOGrammar(GrammarWs),
     ListGrammar, OtherGrammar}

CallGrammarArgs ==
    {StrGrammar(GrammarWs), FileGrammar(GrammarAmb), StrGrammar(GrammarBad)}

\* The token specifications (name, pattern, flags) grammars are enumerated over.
TokenSpecs ==
    {<<n, v, f>> : n \in {"A", "B", "WS"}, v \in {<<"a">>, <<" ">>},
                   f \in {{}, {"ignore"}, {"str"}, {"str", "ignore"}}}

\* Token-specification lists of at most MaxTokens entries, names unique.
TokenLists ==
    {ts \in SeqsUpTo(TokenSpecs, MaxTokens) :
        \A i, j \in 1..Len(ts) : i # j => ts[i][1] # ts[j][1]}

\* String grammars declaring each of these lists, with one rule start: A.
EnumGrammarArgs ==
    {StrGrammar([valid |-> TRUE, tokens |-> ts, rules |-> << <<"start", <<"A">>>> >>]) :
        ts \in TokenLists}

(***************************************************************************)
(*                                Actions                                  *)
(***************************************************************************)
Init ==
    /\ phase = "new"
    /\ args = [grammar |-> NoGrammar, options |-> <<>>]
    /\ self = NoSelf
    /\ raised = NoExc
    /\ invoked = <<>>
    /\ pc = [t \in Threads |-> "idle"]
    /\ call = [t \in Threads |-> NoCall]
    /\ stream = [t \in Threads |-> NoStream]
    /\ l = [t \in Threads |-> <<>>]
    /\ engineIn = [t \in Threads |-> NoEngineIn]
    /\ result = [t \in Threads |-> NoResult]

callVars == <<pc, call, stream, l, engineIn, result>>

\* Lark(grammar, **options)
Construct(grammar, options) ==
    /\ phase = "new"
    /\ LET c == LarkInit(grammar, options)
       IN  /\ phase' = IF c.raised = NoExc THEN "built" ELSE "failed"
           /\ self' = c.self
           /\ raised' = c.raised
           /\ invoked' = c.invoked
    /\ args' = [grammar |-> grammar, options |-> options]
    /\ UNCHANGED callVars

\* A thread calls lark.lex(text) and holds the stream it returns.
CallLex(t, text) ==
    /\ phase = "built"
    /\ pc[t] = "idle"
    /\ call' = [call EXCEPT ![t] = [kind |-> "lex", text |-> text]]
    /\ stream' = [stream EXCEPT ![t] = LarkLex(self, text)]
    /\ pc' = [pc EXCEPT ![t] = "drain"]
    /\ UNCHANGED <<phase, args, self, raised, invoked, l, engineIn, result>>

\* parse without the assert of line 117.
CallParseNoAssert(t, text) ==
    /\ phase = "built"
    /\ pc[t] = "idle"
    /\ call' = [call EXCEPT ![t] = [kind |-> "parse", text |-> text]]
    /\ stream' = [stream EXCEPT ![t] = LarkLex(self, text)]
    /\ l' = [l EXCEPT ![LocalList(t)] = <<>>]
    /\ pc' = [pc EXCEPT ![t] = "drain"]
    /\ UNCHANGED <<phase, args, self, raised, invoked, engineIn, result>>

\* A thread calls lark.parse(text): the assert of line 117, then the stream
\* of self.lex(text) that list() is about to drain into l.
CallParse(t, text) ==
    /\ phase = "built"
    /\ pc[t] = "idle"
    /\ call' = [call EXCEPT ![t] = [kind |-> "parse", text |-> text]]
    /\ IF self.options.only_lex
         THEN /\ result' = [result EXCEPT ![t] = Raised(Exc("AssertionError", "Lark.parse"))]
              /\ pc' = [pc EXCEPT ![t] = "done"]
              /\ UNCHANGED <<stream, l>>
         ELSE /\ stream' = [stream EXCEPT ![t] = LarkLex(self, text)]
              /\ l' = [l EXCEPT ![LocalList(t)] = <<>>]
              /\ pc' = [pc EXCEPT ![t] = "drain"]
              /\ UNCHANGED result
    /\ UNCHANGED <<phase, args, self, raised, invoked, engineIn>>

\* One next() on the thread's stream: by list() inside parse, or by the
\* caller of lex, who collects the tokens in a list of its own.
Drain(t) ==
    /\ pc[t] = "drain"
    /\ LET n == StreamNext(self.lexer, call[t].text, stream[t])
           slot == IF call[t].kind = "parse" THEN LocalList(t) ELSE t
       IN  /\ stream' = [stream EXCEPT ![t] = n.st]
           /\ IF n.kind = "token"
                THEN /\ l' = [l EXCEPT ![slot] = Append(@, n.tok)]
                     /\ UNCHANGED <<pc, result>>
              ELSE IF n.kind = "raise"
                THEN /\ result' = [result EXCEPT ![t] = Raised(n.raised)]
                     /\ pc' = [pc EXCEPT ![t] = "done"]
                     /\ UNCHANGED l
              ELSE IF call[t].kind = "parse"
                THEN /\ pc' = [pc EXCEPT ![t] = "engine"]
                     /\ UNCHANGED <<l, result>>
              ELSE /\ result' = [result EXCEPT ![t] = Returned(l[slot], NoTree)]
                   /\ pc' = [pc EXCEPT ![t] = "done"]
                   /\ UNCHANGED l
    /\ UNCHANGED <<phase, args, self, raised, invoked, call, engineIn>>

\* Line 119 with the parser compiled on demand, at the first parse.
EngineStepBuilding(t) ==
    /\ pc[t] = "engine"
    /\ LET toks == l[LocalList(t)]
           b == _build_parser(self)
           r == EngineParse(b.parser, toks)
       IN  /\ engineIn' = [engineIn EXCEPT ![t] = [set |-> TRUE, tokens |-> toks]]
           /\ result' = [result EXCEPT ![t] =
                           IF b.raised # NoExc THEN Raised(b.raised)
                           ELSE IF r.raised # NoExc THEN Raised(r.raised)
                           ELSE Returned(<<>>, r.value)]
    /\ invoked' = invoked \o <<"create_tree_builder", "build_parser">>
    /\ pc' = [pc EXCEPT ![t] = "done"]
    /\ UNCHANGED <<phase, args, self, raised, call, stream, l>>

\* Line 119 with the token list kept on the instance, as self.l.
EngineStepStoring(t) ==
    /\ pc[t] = "engine"
    /\ LET toks == l[LocalList(t)]
           r == EngineParse(self.parser, toks)
       IN  /\ engineIn' = [engineIn EXCEPT ![t] = [set |-> TRUE, tokens |-> toks]]
           /\ self' = [self EXCEPT !.attrs = @ \cup {"l"}]
           /\ result' = [result EXCEPT ![t] =
                           IF r.raised # NoExc THEN Raised(r.raised)
                           ELSE Returned(<<>>, r.value)]
    /\ pc' = [pc EXCEPT ![t] = "done"]
    /\ UNCHANGED <<phase, args, raised, invoked, call, stream, l>>

\* Line 119: return self.parser.parse(l)
EngineStep(t) ==
    /\ pc[t] = "engine"
    /\ LET toks == l[LocalList(t)]
           r == EngineParse(self.parser, toks)
       IN  /\ engineIn' = [engineIn EXCEPT ![t] = [set |-> TRUE, tokens |-> toks]]
           /\ result' = [result EXCEPT ![t] =
                           IF r.raised # NoExc THEN Raised(r.raised)
                           ELSE Returned(<<>>, r.value)]
    /\ pc' = [pc EXCEPT ![t] = "done"]
    /\ UNCHANGED <<phase, args, self, raised, invoked, call, stream, l>>

\* The call is over: its frame and its stream are dropped.
Return(t) ==
    /\ pc[t] = "done"
    /\ pc' = [pc EXCEPT ![t] = "idle"]
    /\ call' = [call EXCEPT ![t] = NoCall]
    /\ stream' = [stream EXCEPT ![t] = NoStream]
    /\ l' = [l EXCEPT ![t] = <<>>]
    /\ engineIn' = [engineIn EXCEPT ![t] = NoEngineIn]
    /\ result' = [result EXCEPT ![t] = NoResult]
    /\ UNCHANGED <<phase, args, self, raised, invoked>>

ConstructForCalls ==
    phase = "new" /\ \E g \in CallGrammarArgs, o \in CallOptionDicts : Construct(g, o)
ConstructAnyOptions ==
    phase = "new" /\ \E g \in GrammarArgs, o \in OptionDicts : Construct(g, o)
ConstructAnyGrammar ==
    phase = "new" /\ \E g \in EnumGrammarArgs, o \in {<<>>} : Construct(g, o)
LexCalls == \E t \in Threads, text \in Texts : CallLex(t, text)
ParseCalls == \E t \in Threads, text \in Texts : CallParse(t, text)
DrainSteps == \E t \in Threads : Drain(t)
EngineSteps == \E t \in Threads : EngineStep(t)
Returns == \E t \in Threads : Return(t)

\* One instance, then lex and parse calls on it by the threads.
Next == ConstructForCalls \/ LexCalls \/ ParseCalls \/ DrainSteps \/ EngineSteps \/ Returns
Spec == Init /\ [][Next]_vars

\* Construction alone, over every option dictionary and every grammar.
NextConstruct == ConstructAnyOptions \/ ConstructAnyGrammar
SpecConstruct == Init /\ [][NextConstruct]_vars

(***************************************************************************)
(*                         What the claims speak of                        *)
(***************************************************************************)
\* The options given to the constructor.
Given == args.options
Has(k) == k \in DOMAIN Given
Requested(k) == Has(k) /\ Truthy(Given[k])

\* A transformer is supplied and the engine is Earley, named or by default.
TransformerWithEarley == Requested("transformer") /\ (~Has("parser") \/ Given["parser"] = "earley")
UnknownEngine == Has("parser") /\ Given["parser"] \notin {"lalr", "earley"}
UnknownOption == \E k \in DOMAIN Given : k \notin KnownKeys
IllegalOptions == TransformerWithEarley \/ UnknownEngine \/ UnknownOption

CompilationWork ==
    {"load_grammar", "Lexer", "Engine", "ParseTreeBuilder", "create_tree_builder", "build_parser"}
Count(name) == Cardinality({i \in 1..Len(invoked) : invoked[i] = name})

\* lex(text) as the claims describe it: the lexer's output, passed through the
\* post-lexer when one is configured, drained to its end.
LexOutcome(text) ==
    DrainAll(self.lexer, text,
             [wrap |-> IF Requested("postlex") THEN Given["postlex"] ELSE "None",
              pos |-> 1, closed |-> FALSE],
             <<>>)

Parsing(t) == call[t].kind = "parse"

(***************************************************************************)
(*                                 Claims                                  *)
(***************************************************************************)
\* C1: a constructor given a transformer while the engine is Earley (named, or
\* the default because no parser option is given) has failed, inside
\* LarkOptions.__init__ and before anything else was invoked, whatever the
\* other options are; no instance exists to defer the failure to.
C1_TransformerWithEarleyRejected ==
    (phase # "new" /\ TransformerWithEarley) =>
        /\ phase = "failed"
        /\ raised.at = "LarkOptions.__init__"
        /\ invoked = <<"LarkOptions">>

\* The default engine, a transformer, and other options that are illegal too.
C1_Witness ==
    /\ phase = "failed" /\ ~Has("parser") /\ Requested("transformer")
    /\ Requested("only_lex") /\ Requested("keep_all_tokens") /\ Has("lexer")
    /\ raised = Exc("ValueError", "LarkOptions.__init__")

\* C2: a constructor given illegal options (transformer with Earley, an engine
\* name outside ENGINE_DICT, an option key that is not recognised) has failed
\* without invoking load_grammar, the Lexer, the engine, ParseTreeBuilder or
\* build_parser, whatever the other options (only_lex included).
C2_IllegalOptionsRejectedBeforeCompilation ==
    (phase # "new" /\ IllegalOptions) =>
        /\ phase = "failed"
        /\ \A i \in 1..Len(invoked) : invoked[i] \notin CompilationWork

\* An unknown option key alone, with only_lex, on a grammar that compiles.
C2_Witness ==
    /\ phase = "failed" /\ UnknownOption /\ ~TransformerWithEarley /\ ~UnknownEngine
    /\ Requested("only_lex") /\ IsString(args.grammar) /\ args.grammar.text.valid
    /\ raised = Exc("ValueError", "LarkOptions.__init__")

\* C3: with keep_all_tokens omitted from the options, the option object of a
\* constructed instance has keep_all_tokens true.
C3_KeepAllTokensDefaultsToTrue ==
    (phase = "built" /\ ~Has("keep_all_tokens")) => self.options.keep_all_tokens

\* C4: a constructor asked for keep_all_tokens with a truthy value has failed;
\* every constructed instance has options.keep_all_tokens false, and no
\* build_parser was ever invoked under a request to keep all tokens.
C4_TokenFilteringFixedToDrop ==
    /\ (phase # "new" /\ Requested("keep_all_tokens")) => phase = "failed"
    /\ phase = "built" => ~self.options.keep_all_tokens
    /\ Count("build_parser") > 0 => ~Requested("keep_all_tokens")

\* keep_all_tokens is all that is wrong with the options.
C4_Witness ==
    /\ phase = "failed" /\ Requested("keep_all_tokens") /\ ~IllegalOptions
    /\ raised = Exc("NotImplementedError", "LarkOptions.__init__")

\* C5: once the instance is constructed, no step of a lex or parse call
\* validates options, loads the grammar or builds a parser (the record of what
\* the constructor invoked and raised stays as it is), and no call ends in a
\* configuration or grammar error: those come from the constructor alone.
C5_ConstructionErrorsOnlyFromConstructor ==
    [][phase = "built" =>
         /\ invoked' = invoked
         /\ raised' = raised
         /\ \A t \in Threads :
              /\ result'[t].raised.exc \notin
                     {"GrammarConflict", "GrammarError", "ValueError", "NotImplementedError"}
              /\ result'[t].raised.at \notin
                     {"LarkOptions.__init__", "Lark.__init__", "load_grammar", "build_parser"}
      ]_vars

\* A parse call on a LALR instance ended in the engine, one way or the other.
C5_Witness ==
    /\ phase = "built" /\ self.parser_engine = "lalr"
    /\ \E t, u \in Threads :
         /\ pc[t] = "done" /\ Parsing(t) /\ result[t].status = "returned"
         /\ pc[u] = "done" /\ Parsing(u) /\ result[u].raised.at = "parser.parse"

\* C6: in a parse call on an instance built with only_lex false, the engine
\* is invoked only after the stream of lex(text) is drained to its end; it is
\* handed exactly the tokens of lex(text), in order, and its result is what
\* parse returns or raises; when lexing fails the engine is never invoked and
\* the caller gets the lexer's error and no tree.
C6_ParseChainsLexThenEngine ==
    \A t \in Threads :
        (phase = "built" /\ Parsing(t) /\ ~self.options.only_lex) =>
            LET lexed == LexOutcome(call[t].text)
                r == EngineParse(self.parser, lexed.tokens)
            IN  /\ pc[t] = "drain" => ~engineIn[t].set
                /\ pc[t] = "engine" =>
                      /\ ~engineIn[t].set
                      /\ lexed.raised = NoExc
                      /\ l[t] = lexed.tokens
                /\ pc[t] = "done" =>
                      IF lexed.raised # NoExc
                        THEN ~engineIn[t].set /\ result[t] = Raised(lexed.raised)
                        ELSE /\ engineIn[t] = [set |-> TRUE, tokens |-> lexed.tokens]
                             /\ result[t] = IF r.raised # NoExc THEN Raised(r.raised)
                                            ELSE Returned(<<>>, r.value)

\* One parse through a post-lexer returned a tree; another, on the same
\* instance, met a lexer error after a first token.
C6_Witness ==
    \E t, u \in Threads :
        /\ pc[t] = "done" /\ Parsing(t) /\ Requested("postlex")
        /\ result[t].status = "returned" /\ Len(engineIn[t].tokens) >= 2
        /\ pc[u] = "done" /\ Parsing(u) /\ result[u].raised.exc = "UnexpectedCharacter"
        /\ result[u].raised.pos >= 1

\* C7: however the steps of the threads' calls interleave, a parse call's
\* token list is the one its own stream has produced so far, and the call
\* ends as the same call run alone on its text would.
C7_ConcurrentParsesDoNotInterfere ==
    \A t \in Threads :
        (phase = "built" /\ Parsing(t)) =>
            /\ pc[t] \in {"drain", "engine"} =>
                  DrainAll(self.lexer, call[t].text, stream[t], l[t])
                      = DrainAll(self.lexer, call[t].text, LarkLex(self, call[t].text), <<>>)
            /\ pc[t] = "done" => result[t] = ParseAlone(self, call[t].text)

\* Two parse calls on different texts, both under way with tokens in hand.
C7_Witness ==
    \E t, u \in Threads :
        /\ t # u /\ Parsing(t) /\ Parsing(u) /\ call[t].text # call[u].text
        /\ pc[t] = "drain" /\ Len(l[t]) >= 1
        /\ pc[u] = "engine" /\ Len(l[u]) >= 2

\* C8: the lexer was built once and the engine's parser once (not at all with
\* only_lex), by the constructor; no step of a lex or parse call changes an
\* attribute of the instance; calls that have ended on the same text ended
\* the same way.
C8_InstanceImmutable ==
    /\ [](phase = "built" =>
            /\ Count("Lexer") = 1
            /\ Count("Engine") = (IF self.options.only_lex THEN 0 ELSE 1)
            /\ Count("build_parser") = (IF self.options.only_lex THEN 0 ELSE 1)
            /\ \A t, u \in Threads :
                 (pc[t] = "done" /\ pc[u] = "done" /\ call[t] = call[u]) =>
                     result[t] = result[u])
    /\ [][phase = "built" => (self' = self /\ phase' = phase /\ args' = args)]_vars

\* Two parse calls on one text have both ended, with a tree.
C8_Witness ==
    \E t, u \in Threads :
        /\ t # u /\ pc[t] = "done" /\ pc[u] = "done"
        /\ Parsing(t) /\ call[t] = call[u] /\ result[t].status = "returned"

\* C9: an instance built with only_lex has a lexer and no parser (the engine,
\* ParseTreeBuilder and build_parser were not invoked); its lex calls yield
\* the tokens of the text; its parse calls fail at once, no stream made and no
\* token drained. An instance built without only_lex has a lexer and a parser.
C9_OnlyLexBuildsNoParser ==
    phase = "built" =>
        IF Requested("only_lex")
          THEN /\ self.attrs = {"options", "tokens", "rules", "lexer"}
               /\ Count("Lexer") = 1
               /\ Count("Engine") + Count("ParseTreeBuilder") + Count("build_parser") = 0
               /\ \A t \in Threads :
                    /\ Parsing(t) =>
                          /\ pc[t] = "done"
                          /\ result[t] = Raised(Exc("AssertionError", "Lark.parse"))
                          /\ stream[t] = NoStream /\ l[t] = <<>>
                    /\ (call[t].kind = "lex" /\ pc[t] = "done") =>
                          LET lexed == LexOutcome(call[t].text)
                          IN  result[t] = IF lexed.raised # NoExc THEN Raised(lexed.raised)
                                          ELSE Returned(lexed.tokens, NoTree)
          ELSE /\ {"lexer", "parser"} \subseteq self.attrs
               /\ self.parser.engine = self.options.parser

\* On an only_lex instance a parse call has failed and a lex call has
\* yielded tokens.
C9_Witness ==
    /\ phase = "built" /\ Requested("only_lex")
    /\ \E t, u \in Threads :
         /\ Parsing(t) /\ pc[t] = "done"
         /\ call[u].kind = "lex" /\ pc[u] = "done" /\ Len(result[u].tokens) >= 1

\* C10: the lexer of a constructed instance was handed the (name, pattern)
\* pair of every token specification load_grammar returned, ignored ones
\* included, once each and in the declared order, and for ignore list the
\* names of the specifications flagged 'ignore', in the declared order.
C10_BuildLexerPreservesDeclarations ==
    phase = "built" =>
        LET ts == self.tokens
            ignored == SelectSeq(ts, LAMBDA x : "ignore" \in x[3])
        IN  /\ Len(self.lexer.tokens) = Len(ts)
            /\ \A i \in 1..Len(ts) : self.lexer.tokens[i] = <<ts[i][1], ts[i][2]>>
            /\ Len(self.lexer.ignore) = Len(ignored)
            /\ \A i \in 1..Len(ignored) : self.lexer.ignore[i] = ignored[i][1]

\* An ignored specification declared before one that is not.
C10_Witness ==
    /\ phase = "built" /\ Len(self.tokens) >= 2
    /\ "ignore" \in self.tokens[1][3] /\ "ignore" \notin self.tokens[2][3]
    /\ self.lexer.ignore = <<self.tokens[1][1]>>
    /\ self.lexer.tokens[1][1] = self.tokens[1][1]

=============================================================================
